---- MODULE Spec2Model ----
(***************************************************************************)
(* Model of live_tex_editor.py (class LiveTeXEditor): the Tk event loop    *)
(* with its two `after` timers (debounce, backup), the compile handler     *)
(* _compile_now with its blocking subprocess call and its modal dialogs,   *)
(* the template loader, the outline builder and the periodic backup.       *)
(*                                                                         *)
(* Time is counted in seconds.  A text is a string that ends in a newline, *)
(* given as the sequence of its newline-terminated lines; a line is given  *)
(* as the heading depth the outline regex finds on it (0: no heading), so  *)
(* <<0>> is the single newline an empty Text widget holds.                 *)
(* A file is <<>> when absent and <<data>> when present.                   *)
(***************************************************************************)
EXTENDS Integers, Sequences, FiniteSets, TLC

\* ---------------------------------------------------------------- constants
\* self.after(2000, self._live_update): 2000 ms
DebounceDelay == 2
\* self.backup_interval_ms = 10 * 60 * 1000
backup_interval == 600
\* subprocess.run(..., timeout=20)
CompileTimeout == 20

\* ------------------------------------------------------------------- bounds
\* a timer's remaining time is kept exactly up to Horizon seconds; a timer
\* with more time left is Far
Horizon == 2
\* longest run of pdflatex, short of the timeout, that is enumerated
MaxProcTime == 2
\* firings of the backup timer with a document open that are followed
MaxFirings == 2
\* longest text, in lines, the outline is built from
MaxLines == 3

Far == Horizon + 1
\* a timer whose time has passed
Overdue == -1

\* a timer id that is None
None == 0
\* self.current_tex_path = None
NoPath == ""
NoFile == <<>>
Exists(f) == f # NoFile
Data(f) == f[1]
File(d) == <<d>>

\* what the user may leave in the editor after a key release
EditTexts == { <<2>> }
\* the .tex files of ./templates
Templates == { <<1>> }
\* durations of a pdflatex run that exits by itself
ProcDurations == {0, MaxProcTime}
\* with open(path, "w") as f: f.write(content): it succeeds, or open raises and
\* the file is left alone, or write raises and the file is left empty
WriteOutcomes == {"ok", "failed", "truncated"}
\* the file `old` after a write of `data` with outcome w
Written(old, data, w) ==
    IF w = "ok" THEN File(data) ELSE IF w = "truncated" THEN File(<<>>) ELSE old

VARIABLES
    current_tex_path,   \* NoPath or "main.tex"
    tex_text,           \* content of the Text widget, its last newline included
    modified,           \* the widget's edit_modified flag
    outline,            \* items of outline_tree, in insertion order
    preview,            \* what pdf_canvas shows: <<>> or <<page>>
    compile_after_id,   \* self._compile_after_id (None or a timer id)
    backup_after_id,    \* self._backup_after_id
    afters,             \* timers pending in the Tk loop: [id, left, cb]
    stack,              \* handlers in progress, innermost last
    src_file,           \* main.tex
    temp_tex,           \* build/temp.tex
    temp_log,           \* build/temp.log
    temp_pdf,           \* build/temp.pdf
    backups,            \* backups/, by name: [age, data]
    last,               \* what the last pdflatex run and its classification did
    since_edit,         \* seconds since the last _on_text_modified of a burst
    fired,              \* _live_update calls since the last _on_text_modified
    firings             \* _do_backup calls made with a document open: the
                        \* buffer then, and how the write ended

vars == << current_tex_path, tex_text, modified, outline, preview,
           compile_after_id, backup_after_id, afters, stack, src_file,
           temp_tex, temp_log, temp_pdf, backups, last, since_edit, fired,
           firings >>

ui == << tex_text, modified, outline, preview >>
build == << temp_tex, temp_log, temp_pdf >>
timers == << compile_after_id, backup_after_id, afters >>
bak == << backups, firings >>

\* ------------------------------------------------------------ text widget
\* tex_text.get("1.0", tk.END): the whole content of the widget, the newline
\* Tk keeps at its end included
Get(text) == text

\* tex_text.delete("1.0", tk.END); tex_text.insert("1.0", s): the lines of s
\* followed by the widget's own last line, which is empty
Insert(s) == s \o <<0>>

\* text.splitlines(): one element for each newline-terminated line
SplitLines(s) == s

\* --------------------------------------------------------------- outline
\* the root of outline_tree: the parent ""
Root == 0

\* variant of ParentOf: the latest heading of the nearest shallower depth
NearestShallower(parent_stack, depth) ==
    LET above == {d \in DOMAIN parent_stack : d < depth}
    IN parent_stack[CHOOSE d \in above : \A e \in above : e <= d]

\* parent = parent_stack.get(depth - 1, "")
ParentOf(parent_stack, depth) ==
    IF (depth - 1) \in DOMAIN parent_stack
    THEN parent_stack[depth - 1] ELSE Root

RECURSIVE OutlineLoop(_, _, _, _)
OutlineLoop(lines, lineno, parent_stack, tree) ==
    IF lineno > Len(lines) THEN tree
    ELSE LET depth == lines[lineno] IN
         IF depth = 0
         THEN OutlineLoop(lines, lineno + 1, parent_stack, tree)
         ELSE LET parent == ParentOf(parent_stack, depth)
                  item == [iid |-> lineno, parent |-> parent, depth |-> depth]
                  stack2 == [d \in (DOMAIN parent_stack) \cup {depth} |->
                               IF d = depth THEN lineno ELSE parent_stack[d]]
              IN OutlineLoop(lines, lineno + 1, stack2, Append(tree, item))

\* the tree built from the widget's text, starting from an empty tree
Outline(text) ==
    OutlineLoop(SplitLines(Get(text)), 1, [d \in {0} |-> Root], <<>>)

\* variant of Clear: the items of the old tree are left in place
KeepItems(tree) == tree

\* for iid in outline_tree.get_children(): outline_tree.delete(iid)
Clear(tree) == <<>>

\* _update_outline on the tree it finds: cleared, then filled from the text
UpdateOutline(tree, text) ==
    OutlineLoop(SplitLines(Get(text)), 1, [d \in {0} |-> Root], Clear(tree))

\* ------------------------------------------------------------ Tk timers
Min(S) == CHOOSE x \in S : \A y \in S : x <= y
Max(S) == CHOOSE x \in S : \A y \in S : x >= y

\* self.after(ms, cb) returns an id Tk has never given before; an id that no
\* pending timer and no attribute holds any more is as good as a new one
NewId(used) == Min({i \in 1..(Cardinality(used) + 1) : i \notin used})

Ids(pending) == {t.id : t \in pending}

\* self.after(delay, cb): the timer Tk adds to its queue
After(id, delay, cb) ==
    [id |-> id, left |-> IF delay > Horizon THEN Far ELSE delay, cb |-> cb]

\* variant of AfterCancel: the timer is left in the queue
KeepPending(pending, id) == pending

\* self.after_cancel(id)
AfterCancel(pending, id) == {t \in pending : t.id # id}

\* timers whose time has come
Due == {t \in afters : t.left <= 0}

\* what d seconds may leave of a Far timer
Landing(d) == IF d = 0 THEN {Far} ELSE {Far} \cup (Max({Far - d, Overdue}) .. Horizon)

\* the time left on a timer once d seconds have passed
Pass(left, d, land) ==
    IF d = 0 THEN left
    ELSE IF left = Far THEN land
    ELSE Max({left - d, Overdue})

\* the clock of a burst of edits: it runs from the last _on_text_modified to
\* the _live_update that follows it, and is followed a second past the delay
Elapsed(since, d) ==
    IF since < 0 \/ fired > 0 THEN since ELSE Min({since + d, DebounceDelay + 1})

\* backups/ once d seconds have passed: a file's age says whether it was
\* written in the current second (0) or before (1)
Aged(dir, d) == IF d = 0 THEN dir ELSE [i \in DOMAIN dir |-> [dir[i] EXCEPT !.age = 1]]

\* d seconds pass
Advance(d, land) ==
    /\ afters' = {[t EXCEPT !.left = Pass(t.left, d, land)] : t \in afters}
    /\ since_edit' = Elapsed(since_edit, d)
    /\ backups' = Aged(backups, d)

\* the model follows the backup timer to its next firing only while fewer
\* than MaxFirings backups of an open document have been made
MayLand(land) == land = Far \/ Len(firings) < MaxFirings

\* ----------------------------------------------------------- event loop
Top == stack[Len(stack)]
Pop(s) == SubSeq(s, 1, Len(s) - 1)

Frame(h, pc, outcome, diag) ==
    [h |-> h, pc |-> pc, outcome |-> outcome, diag |-> diag]

\* mainloop is idle: key and button events reach the main window
InputFree == stack = <<>>

\* variant of LoopFree: pdflatex is waited for without holding the loop
LoopFreeWhileInvoking == TRUE

\* variant of LoopFree: an open message box holds the loop too
LoopFreeWhenIdle == stack = <<>>

\* the loop (mainloop, or the local loop of a modal dialog) dispatches timers;
\* it does not while a handler sits in subprocess.run
LoopFree == IF stack = <<>> THEN TRUE ELSE Top.pc \in {"dialog", "filedialog"}

\* no pdflatex run ended in the last step
Quiet == [rc |-> -1, pdf |-> FALSE, fresh |-> FALSE, renders |-> 0]

Init ==
    /\ current_tex_path = NoPath
    /\ tex_text = <<0>>
    /\ modified = FALSE
    /\ outline = <<>>
    /\ preview = NoFile
    /\ compile_after_id = None
    /\ backup_after_id = 1
    /\ afters = {After(1, backup_interval, "do_backup")}
    /\ stack = <<>>
    /\ src_file = NoFile
    /\ temp_tex = NoFile
    /\ temp_log = NoFile
    /\ temp_pdf = NoFile
    /\ backups = <<>>
    /\ last = Quiet
    /\ since_edit = -1
    /\ fired = 0
    /\ firings = <<>>

\* ------------------------------------------------------------------ clock
\* a pending timer fires as soon as its time has come and the loop is free,
\* so the clock moves on only when no timer is due.  One second passes:
Tick ==
    /\ LoopFree
    /\ Due = {}
    /\ \E land \in Landing(1) :
         /\ MayLand(land)
         /\ Advance(1, land)
    /\ last' = Quiet
    /\ UNCHANGED << current_tex_path, ui, compile_after_id, backup_after_id,
                    stack, src_file, build, fired, firings >>

\* nothing happens until the timers still Far are due
Wait ==
    /\ LoopFree
    /\ afters # {}
    /\ \A t \in afters : t.left = Far
    /\ MayLand(0)
    /\ Advance(Far, 0)
    /\ last' = Quiet
    /\ UNCHANGED << current_tex_path, ui, compile_after_id, backup_after_id,
                    stack, src_file, build, fired, firings >>

\* --------------------------------------------------------- edit, debounce
\* variant of HasDocument: _compile_now does not test the path
AnyPath(path) == TRUE

HasDocument(path) == path # NoPath

\* <KeyRelease> in the editor: the key may have changed the text (Tk then
\* sets the modified flag); _on_text_modified re-arms the debounce timer
OnTextModified ==
    /\ InputFree
    /\ \E text \in EditTexts \cup {tex_text} :
         /\ tex_text' = text
         /\ modified' = (modified \/ text # tex_text)
    /\ LET pending == IF compile_after_id # None
                      THEN AfterCancel(afters, compile_after_id) ELSE afters
           id == NewId(Ids(pending) \cup {backup_after_id})
       IN /\ afters' = pending \cup {After(id, DebounceDelay, "live_update")}
          /\ compile_after_id' = id
    /\ last' = Quiet
    /\ since_edit' = 0
    /\ fired' = 0
    /\ UNCHANGED << current_tex_path, outline, preview, backup_after_id,
                    stack, src_file, build, bak >>

\* ---------------------------------------------------------------- compile
\* variant of FlagAfterWrite: the flag is cleared before the write is tried
FlagCleared(mod, w) == FALSE

\* tex_text.edit_modified(False) follows f.write inside the try: the flag is
\* cleared when the write has succeeded
FlagAfterWrite(mod, w) == IF w = "ok" THEN FALSE ELSE mod

\* variant of Staged: a temp.tex already in build/ is not copied over
StagedOnce(src, old) == IF Exists(old) THEN old ELSE src

\* shutil.copyfile(self.current_tex_path, temp_tex): temp.tex after the copy
Staged(src, old) == src

\* temp.pdf as a new pdflatex run finds it: left by an earlier request
Stale(f) == IF Exists(f) THEN File([Data(f) EXCEPT !.fresh = FALSE]) ELSE f

\* _compile_now up to the call of subprocess.run, called by handler h on top of
\* the handlers `below`, with the path, the file at that path, the widget text
\* and the modified flag it finds
CompileNow(h, below, path, src, text, mod) ==
    IF ~HasDocument(path)
    THEN \* messagebox.showinfo("No File", ...)
         /\ stack' = Append(below, Frame(h, "dialog", "InputError", NoFile))
         /\ modified' = mod
         /\ src_file' = src
         /\ UNCHANGED build
    ELSE \E w \in WriteOutcomes :
         IF w # "ok"
         THEN \* "Save-Before-Compile Error"
              /\ src_file' = Written(src, Get(text), w)
              /\ modified' = FlagAfterWrite(mod, w)
              /\ stack' = Append(below, Frame(h, "dialog", "IOError", NoFile))
              /\ UNCHANGED build
         ELSE /\ src_file' = Written(src, Get(text), w)
              /\ modified' = FlagAfterWrite(mod, w)
              /\ \E copied \in BOOLEAN :
                   IF ~copied
                   THEN \* "Build Copy Error"
                        /\ stack' = Append(below,
                                 Frame(h, "dialog", "IOError", NoFile))
                        /\ UNCHANGED build
                   ELSE \* shutil.copyfile, then subprocess.run starts pdflatex
                        /\ temp_tex' = Staged(src_file', temp_tex)
                        /\ temp_pdf' = Stale(temp_pdf)
                        /\ stack' = Append(below, Frame(h, "invoke", "", NoFile))
                        /\ UNCHANGED temp_log

\* the "Compile Now" button
CompileNowClick ==
    /\ InputFree
    /\ CompileNow("compile_now", stack, current_tex_path, src_file, tex_text,
                  modified)
    /\ last' = Quiet
    /\ UNCHANGED << current_tex_path, tex_text, outline, preview, timers,
                    since_edit, fired, bak >>

\* variant of LiveUpdate: the outline is rebuilt only when a document is open
LiveUpdateOfDocument ==
    /\ LoopFree
    /\ \E t \in Due :
         /\ t.cb = "live_update"
         /\ afters' = afters \ {t}
    /\ compile_after_id' = None
    /\ outline' = IF HasDocument(current_tex_path)
                  THEN UpdateOutline(outline, tex_text) ELSE outline
    /\ CompileNow("live_update", stack, current_tex_path, src_file, tex_text,
                  modified)
    /\ last' = Quiet
    /\ fired' = fired + 1
    /\ UNCHANGED << current_tex_path, tex_text, preview, backup_after_id,
                    since_edit, bak >>

\* the debounce timer fires: _live_update
LiveUpdate ==
    /\ LoopFree
    /\ \E t \in Due :
         /\ t.cb = "live_update"
         /\ afters' = afters \ {t}
    /\ compile_after_id' = None
    /\ outline' = UpdateOutline(outline, tex_text)
    /\ CompileNow("live_update", stack, current_tex_path, src_file, tex_text,
                  modified)
    /\ last' = Quiet
    /\ fired' = fired + 1
    /\ UNCHANGED << current_tex_path, tex_text, preview, backup_after_id,
                    since_edit, bak >>

\* subprocess.run raises at once: FileNotFoundError, or another exception
ProcLaunchFails ==
    /\ stack # <<>>
    /\ Top.pc = "invoke"
    /\ stack' = Append(Pop(stack),
                   [Top EXCEPT !.pc = "dialog", !.outcome = "ToolUnavailable"])
    /\ last' = Quiet
    /\ UNCHANGED << current_tex_path, ui, timers, src_file, build, since_edit,
                    fired, bak >>

\* subprocess.run raises TimeoutExpired after 20 seconds
ProcTimesOut ==
    /\ stack # <<>>
    /\ Top.pc = "invoke"
    /\ \E land \in Landing(CompileTimeout) :
         /\ MayLand(land)
         /\ Advance(CompileTimeout, land)
    /\ stack' = Append(Pop(stack),
                   [Top EXCEPT !.pc = "dialog", !.outcome = "ToolUnavailable"])
    /\ last' = Quiet
    /\ UNCHANGED << current_tex_path, ui, compile_after_id, backup_after_id,
                    src_file, build, fired, firings >>

\* variant of Classify: the PDF is looked for before the exit code is
ClassifyArtifactFirst(rc, log, pdf, renders) ==
    IF Exists(pdf)
    THEN [outcome |-> IF renders THEN "Success" ELSE "RenderError",
          diag |-> NoFile, renders |-> 1]
    ELSE IF rc # 0
         THEN [outcome |-> "CompileFailure", diag |-> log, renders |-> 0]
    ELSE [outcome |-> "ArtifactMissing", diag |-> NoFile, renders |-> 0]

\* variant of Classify: exit code 0 goes to the renderer without the test
\* for temp.pdf
ClassifyNoArtifactTest(rc, log, pdf, renders) ==
    IF rc # 0 THEN [outcome |-> "CompileFailure", diag |-> log, renders |-> 0]
    ELSE IF ~renders \/ ~Exists(pdf)
         THEN [outcome |-> "RenderError", diag |-> NoFile, renders |-> 1]
    ELSE [outcome |-> "Success", diag |-> NoFile, renders |-> 1]

\* the outcome of _compile_now once pdflatex has exited with code rc, given
\* the log and the PDF then in build/ and whether fitz and PIL render the page
Classify(rc, log, pdf, renders) ==
    IF rc # 0 THEN [outcome |-> "CompileFailure", diag |-> log, renders |-> 0]
    ELSE IF ~Exists(pdf)
         THEN [outcome |-> "ArtifactMissing", diag |-> NoFile, renders |-> 0]
    ELSE IF ~renders
         THEN [outcome |-> "RenderError", diag |-> NoFile, renders |-> 1]
    ELSE [outcome |-> "Success", diag |-> NoFile, renders |-> 1]

\* pdflatex exits with code rc after d seconds, having written (or not)
\* temp.log and temp.pdf; _compile_now then runs to its return or its dialog
ProcExits ==
    /\ stack # <<>>
    /\ Top.pc = "invoke"
    /\ \E d \in ProcDurations, rc \in {0, 1}, wl \in BOOLEAN, wp \in BOOLEAN,
          renders \in BOOLEAN :
         /\ \E land \in Landing(d) :
              /\ MayLand(land)
              /\ Advance(d, land)
         /\ temp_log' = IF wl THEN File("log") ELSE temp_log
         /\ temp_pdf' = IF wp THEN File([fresh |-> TRUE]) ELSE temp_pdf
         /\ LET c == Classify(rc, temp_log', temp_pdf', renders) IN
              /\ preview' = IF c.outcome = "Success"
                          THEN File("page") ELSE preview
              /\ stack' = IF c.outcome = "Success" THEN Pop(stack)
                          ELSE Append(Pop(stack),
                                 [Top EXCEPT !.pc = "dialog",
                                             !.outcome = c.outcome,
                                             !.diag = c.diag])
              /\ last' = [rc |-> rc, pdf |-> Exists(temp_pdf'),
                          fresh |-> (c.renders = 1 /\ Exists(temp_pdf')
                                    /\ Data(temp_pdf').fresh),
                          renders |-> c.renders]
    /\ UNCHANGED << current_tex_path, tex_text, modified, outline,
                    compile_after_id, backup_after_id, src_file, temp_tex,
                    fired, firings >>

\* the user closes the message box on top; its handler returns
Dismiss ==
    /\ stack # <<>>
    /\ Top.pc = "dialog"
    /\ stack' = Pop(stack)
    /\ last' = Quiet
    /\ UNCHANGED << current_tex_path, ui, timers, src_file, build, since_edit,
                    fired, bak >>

\* ------------------------------------------------------------------- save
\* the "Save Now" button: _save_now
SaveNow ==
    /\ InputFree
    /\ IF ~HasDocument(current_tex_path)
       THEN /\ stack' = <<Frame("save_now", "dialog", "NoFile", NoFile)>>
            /\ UNCHANGED << src_file, modified >>
       ELSE \E w \in WriteOutcomes :
            /\ src_file' = Written(src_file, Get(tex_text), w)
            /\ modified' = FlagAfterWrite(modified, w)
            /\ stack' = <<Frame("save_now", "dialog",
                                IF w = "ok" THEN "Saved" ELSE "SaveError",
                                NoFile)>>
    /\ last' = Quiet
    /\ UNCHANGED << current_tex_path, tex_text, outline, preview, timers,
                    build, since_edit, fired, bak >>

\* --------------------------------------------------------------- template
\* the "New from Template" button: _on_new_from_template up to its first
\* modal window (the error box when ./templates is missing, else the file
\* dialog)
TemplateClick ==
    /\ InputFree
    /\ \E isdir \in BOOLEAN :
         stack' = IF isdir
                  THEN <<Frame("template", "filedialog", "", NoFile)>>
                  ELSE <<Frame("template", "dialog", "TemplatesNotFound",
                               NoFile)>>
    /\ last' = Quiet
    /\ UNCHANGED << current_tex_path, ui, timers, src_file, build, since_edit,
                    fired, bak >>

\* the file dialog is cancelled
TemplateCancel ==
    /\ stack # <<>>
    /\ Top.pc = "filedialog"
    /\ stack' = Pop(stack)
    /\ last' = Quiet
    /\ UNCHANGED << current_tex_path, ui, timers, src_file, build, since_edit,
                    fired, bak >>

\* the file dialog returns a template: the rest of _on_new_from_template
TemplateChosen ==
    /\ stack # <<>>
    /\ Top.pc = "filedialog"
    /\ \E chosen \in Templates, copied \in BOOLEAN, loaded \in BOOLEAN :
         IF ~copied
         THEN \* "Copy Error"
              /\ stack' = Append(Pop(stack),
                     Frame("template", "dialog", "CopyError", NoFile))
              /\ UNCHANGED << current_tex_path, ui, src_file, build >>
         ELSE IF ~loaded
         THEN \* "Load Error"
              /\ src_file' = File(chosen)
              /\ current_tex_path' = "main.tex"
              /\ stack' = Append(Pop(stack),
                     Frame("template", "dialog", "LoadError", NoFile))
              /\ UNCHANGED << ui, build >>
         ELSE /\ current_tex_path' = "main.tex"
              /\ tex_text' = Insert(chosen)
              /\ outline' = UpdateOutline(outline, tex_text')
              /\ CompileNow("template", Pop(stack), "main.tex", File(chosen),
                            tex_text', FALSE)
              /\ UNCHANGED preview
    /\ last' = Quiet
    /\ UNCHANGED << timers, since_edit, fired, bak >>

\* ----------------------------------------------------------------- backup
\* variant of SameName: the file name carries no timestamp
FixedName(age) == TRUE

\* fname = f"backup_{now}.tex" with now the current second: a file written
\* `age` seconds ago has that name when it was written in this same second
SameName(age) == age = 0

\* open(fullpath, "w") and f.write(content) in backups/
WriteBackup(dir, data, w) ==
    IF w = "failed" THEN dir
    ELSE Append(SelectSeq(dir, LAMBDA b : ~SameName(b.age)),
                [age |-> 0, data |-> Data(Written(NoFile, data, w))])

\* variant of ScheduleBackup: the old timer is cancelled and none is armed
CancelBackup(pending) ==
    /\ afters' = IF backup_after_id # None
                 THEN AfterCancel(pending, backup_after_id) ELSE pending
    /\ backup_after_id' = None

\* variant of ScheduleBackup: every pending timer is cancelled, not only the
\* one _backup_after_id names
RescheduleAlone(pending) ==
    LET id == NewId({compile_after_id})
    IN /\ afters' = {After(id, backup_interval, "do_backup")}
       /\ backup_after_id' = id

\* _schedule_backup
ScheduleBackup(pending) ==
    LET kept == IF backup_after_id # None
                THEN AfterCancel(pending, backup_after_id) ELSE pending
        id == NewId(Ids(kept) \cup {compile_after_id})
    IN /\ afters' = kept \cup {After(id, backup_interval, "do_backup")}
       /\ backup_after_id' = id

\* the backup timer fires: _do_backup
DoBackup ==
    /\ LoopFree
    /\ \E t \in Due :
         /\ t.cb = "do_backup"
         /\ ScheduleBackup(afters \ {t})
    /\ IF HasDocument(current_tex_path)
       THEN \E w \in WriteOutcomes :
            /\ backups' = WriteBackup(backups, Get(tex_text), w)
            /\ firings' = Append(firings, [text |-> Get(tex_text), w |-> w])
       ELSE UNCHANGED bak
    /\ last' = Quiet
    /\ UNCHANGED << current_tex_path, ui, compile_after_id, stack, src_file,
                    build, since_edit, fired >>

\* ---------------------------------------------------------- specification
\* Spec follows the backup timer up to its first firing with a document open:
\* after it, the timer stays Far
FirstBackup ==
    firings # <<>> => \A t \in afters : t.cb = "do_backup" => t.left = Far

Next ==
    \/ Tick /\ FirstBackup'
    \/ Wait /\ FirstBackup'
    \/ OnTextModified
    \/ CompileNowClick
    \/ LiveUpdate
    \/ ProcLaunchFails
    \/ ProcTimesOut /\ FirstBackup'
    \/ ProcExits /\ FirstBackup'
    \/ Dismiss
    \/ SaveNow
    \/ TemplateClick
    \/ TemplateCancel
    \/ TemplateChosen
    \/ DoBackup

Spec == Init /\ [][Next]_vars

\* BackupSpec follows the backup timer through MaxFirings firings with a
\* document open, in an environment where the compile pipeline meets no
\* failure: ./templates exists, files are written, copied and read, pdflatex
\* exits with 0 having written its log and the PDF, and the page renders
Reliable ==
    /\ \A i \in DOMAIN stack :
         stack[i].outcome \in {"", "InputError", "NoFile", "Saved"}
    /\ last.rc # 1
    /\ last.rc = 0 => Exists(temp_log) /\ last.fresh

BackupNext ==
    \/ Tick
    \/ Wait
    \/ OnTextModified
    \/ CompileNowClick /\ Reliable'
    \/ LiveUpdate /\ Reliable'
    \/ ProcExits /\ Reliable'
    \/ Dismiss
    \/ SaveNow /\ Reliable'
    \/ TemplateClick /\ Reliable'
    \/ TemplateCancel
    \/ TemplateChosen /\ Reliable'
    \/ DoBackup

BackupSpec == Init /\ [][BackupNext]_vars

\* CompileSpec follows the edit and compile pipeline alone, with every
\* failure it can meet: the backup timer stays Far
BackupFar == \A t \in afters : t.cb = "do_backup" => t.left = Far

CompileNext ==
    \/ Tick /\ BackupFar'
    \/ OnTextModified
    \/ CompileNowClick
    \/ LiveUpdate
    \/ ProcLaunchFails
    \/ ProcTimesOut /\ BackupFar'
    \/ ProcExits /\ BackupFar'
    \/ Dismiss
    \/ SaveNow
    \/ TemplateClick
    \/ TemplateCancel
    \/ TemplateChosen

CompileSpec == Init /\ [][CompileNext]_vars

\* Tk fires a timer that is due when the loop is free, and pdflatex returns
\* (by itself, or stopped by the timeout of subprocess.run)
FairCompileSpec ==
    /\ CompileSpec
    /\ SF_vars(LiveUpdate)
    /\ WF_vars((ProcLaunchFails \/ ProcTimesOut \/ ProcExits) /\ BackupFar')

\* OutlineSpec applies _update_outline to every text of at most MaxLines
\* lines, from the empty tree and from the tree an earlier text has left.
\* Here `fired` counts the rebuilds made since the text last changed.
Depths == 0 .. 4
Texts == UNION {[1 .. n -> Depths] : n \in 1 .. MaxLines}

OutlineInit ==
    /\ tex_text \in Texts
    /\ current_tex_path = NoPath
    /\ modified = FALSE
    /\ outline = <<>>
    /\ preview = NoFile
    /\ compile_after_id = None
    /\ backup_after_id = 1
    /\ afters = {After(1, backup_interval, "do_backup")}
    /\ stack = <<>>
    /\ src_file = NoFile
    /\ temp_tex = NoFile
    /\ temp_log = NoFile
    /\ temp_pdf = NoFile
    /\ backups = <<>>
    /\ last = Quiet
    /\ since_edit = -1
    /\ fired = 0
    /\ firings = <<>>

\* the last line of the text is typed anew
OutlineEdit ==
    /\ \E d \in Depths \ {tex_text[Len(tex_text)]} :
         tex_text' = [tex_text EXCEPT ![Len(tex_text)] = d]
    /\ modified' = TRUE
    /\ fired' = 0
    /\ UNCHANGED << current_tex_path, outline, preview, timers, stack,
                    src_file, build, last, since_edit, bak >>

\* _update_outline runs
OutlineRebuild ==
    /\ fired < 2
    /\ outline' = UpdateOutline(outline, tex_text)
    /\ fired' = fired + 1
    /\ UNCHANGED << current_tex_path, tex_text, modified, preview, timers,
                    stack, src_file, build, last, since_edit, bak >>

OutlineNext == OutlineEdit \/ OutlineRebuild

OutlineSpec == OutlineInit /\ [][OutlineNext]_vars

\* Tk fires a timer that is due when the loop is free, and pdflatex returns
FairBackupSpec ==
    /\ BackupSpec
    /\ SF_vars(DoBackup)
    /\ WF_vars(ProcExits /\ Reliable')

\* ================================================================ properties
Executing == stack # <<>> /\ Top.pc = "invoke"
DebouncePending == \E t \in afters : t.cb = "live_update"
BackupTimers == {t \in afters : t.cb = "do_backup"}
BackupDue == \E t \in BackupTimers : t.left <= 0

\* ------------------------------------------------------------------- C1
\* C1 (debounce): after the last _on_text_modified of a burst at most one
\* _live_update runs, and it runs DebounceDelay seconds after that
\* notification: not before (so not between two notifications less than
\* DebounceDelay apart) and not later.
C1_Debounce ==
    /\ fired <= 1
    /\ fired = 1 => since_edit = DebounceDelay

\* ------------------------------------------------------------------- C2
\* C2 (single flight): at no time are two compile requests between their
\* staging step and the end of their classification: at most one handler in
\* progress is at the pdflatex invocation, and it is the innermost.
C2_SingleFlight ==
    \A i \in DOMAIN stack : stack[i].pc = "invoke" => i = Len(stack)

\* a debounce-triggered compile is at its pdflatex invocation while the
\* handler of an earlier compile request is still in progress below it
C2_Witness ==
    /\ Len(stack) = 2
    /\ stack[1].outcome = "CompileFailure"
    /\ stack[2].h = "live_update"
    /\ stack[2].pc = "invoke"

\* ------------------------------------------------------------------- C3
\* the debounce timer comes due during the step: the compile request it
\* stands for arrives while pdflatex runs
ArrivesDuring ==
    /\ \E t \in afters : t.cb = "live_update" /\ t.left > 0
    /\ \E t \in afters' : t.cb = "live_update" /\ t.left = Overdue

\* the step ends a _compile_now with its outcome shown: the preview is
\* redrawn, or a message box opens
Surfaces ==
    \/ last'.renders = 1 /\ preview' = File("page") /\ Len(stack') < Len(stack)
    \/ Len(stack') = Len(stack) /\ Top'.pc = "dialog"

\* C3 (supersession): when a new compile request arrives while an earlier one
\* is still at its pdflatex invocation, the outcome of the earlier one is not
\* surfaced: no message box, no preview update.
C3_Supersession ==
    [][(Executing /\ ArrivesDuring) => ~Surfaces]_vars

\* ------------------------------------------------------------------- C4
\* C4 (loop not stalled): while a compile is between the launch of pdflatex
\* and its exit code, the loop can process an edit notification and fires the
\* timers that are due.
C4_LoopNotStalled ==
    Executing => /\ ENABLED OnTextModified
                 /\ Due # {} => ENABLED (LiveUpdate \/ DoBackup)

\* ------------------------------------------------------------------- C5
\* the step in which _on_new_from_template replaces the content of the editor
TemplateLoads ==
    /\ stack # <<>>
    /\ Top.pc = "filedialog"
    /\ Len(stack') = Len(stack)
    /\ Top'.outcome \notin {"CopyError", "LoadError"}

\* C5 (cancellation): once _on_new_from_template has loaded a document, no
\* debounce timer armed by an earlier edit is pending.
C5_LoadCancelsDebounce ==
    [][TemplateLoads => ~DebouncePending' /\ compile_after_id' = None]_vars

\* ------------------------------------------------------------------- C6
\* C6 (no active document): a compile request made with no document path
\* ends in the InputError message and does no I/O: main.tex, build/ and the
\* preview are unchanged, pdflatex is not started, the renderer is not called.
C6_NoDocument ==
    [][(current_tex_path = NoPath /\ (CompileNowClick \/ LiveUpdate))
         => /\ Top'.pc = "dialog"
            /\ Top'.outcome = "InputError"
            /\ UNCHANGED << src_file, build, preview >>
            /\ last' = Quiet]_vars

\* the debounce timer has fired with no document open, and its compile
\* request has ended in the InputError message
C6_Witness ==
    /\ stack # <<>>
    /\ Top.h = "live_update"
    /\ Top.outcome = "InputError"
    /\ current_tex_path = NoPath

C8_RenderOnce ==
    /\ last.renders = (IF last.rc = 0 /\ last.pdf THEN 1 ELSE 0)
    /\ (last.rc = 0 /\ ~last.pdf) =>
           Top.pc = "dialog" /\ Top.outcome = "ArtifactMissing"

\* pdflatex has exited with 0 and temp.pdf is present: the page has been
\* rendered and the handler has returned
C8_Witness ==
    /\ last.rc = 0
    /\ last.pdf
    /\ last.renders = 1
    /\ preview = File("page")

\* ------------------------------------------------------------------- C9
\* C9 (backup re-arms): outside _do_backup one backup timer is pending, the
\* one _backup_after_id names; every _do_backup leaves a timer armed for a
\* whole interval, document or not, write failed or not; and a backup timer
\* that is due does fire.
C9_BackupRearms ==
    /\ [](BackupTimers # {} /\ \A t \in BackupTimers : t.id = backup_after_id)
    /\ [][BackupDue => (BackupTimers' # {} /\
                        (~BackupDue' => \A t \in BackupTimers' : t.left = Far))]_vars
    /\ BackupDue ~> ~BackupDue

\* a backup whose write failed has been made, and the timer is armed again
C9_Witness ==
    /\ firings # <<>>
    /\ firings[Len(firings)].w = "failed"
    /\ \E t \in BackupTimers : t.left = Far /\ t.id = backup_after_id

\* ------------------------------------------------------------------ C10
\* the files of backups/ are those of the firings whose file was opened, in
\* firing order, none overwritten
Made == SelectSeq(firings, LAMBDA f : f.w # "failed")

\* C10 as stated: after M firings of the backup timer with a document open,
\* M backup files exist, each holding the buffer of its firing.
C10_Original ==
    /\ Len(backups) = Len(firings)
    /\ \A i \in DOMAIN backups : backups[i].data = firings[i].text

\* C10 (backup count and order): after M firings of the backup timer with a
\* document open, backups/ holds one file for each firing whose file could be
\* opened, in firing order under strictly increasing names; the file of a
\* firing whose write succeeded holds the buffer of that firing.  When every
\* write succeeded these are M files.
C10_BackupFiles ==
    /\ Len(backups) = Len(Made)
    /\ \A i \in DOMAIN backups :
         /\ Made[i].w = "ok" => backups[i].data = Made[i].text
         /\ i < Len(backups) => backups[i].age > 0

\* MaxFirings backups have been written, and backups/ holds them all
C10_Witness ==
    /\ Len(firings) = MaxFirings
    /\ \A i \in DOMAIN firings : firings[i].w = "ok"
    /\ Len(backups) = MaxFirings

\* ------------------------------------------------------------------ C11
\* the step is the persist step of a compile request: _compile_now called by
\* the button, by _live_update, or at the end of a template load
Persists ==
    \/ CompileNowClick
    \/ LiveUpdate
    \/ TemplateChosen /\ Top'.outcome \notin {"CopyError", "LoadError"}

\* C11 (source written by the compile only): a step that is not the persist
\* step of a compile request (Save Now, a template load that stops before its
\* compile, an edit, a backup, ...) leaves main.tex as it is.
C11_OnlyCompileWrites ==
    [][src_file' # src_file => Persists]_vars

\* ------------------------------------------------------------------ C12
\* the lines of a text that hold a heading
Headings(lines) == {i \in DOMAIN lines : lines[i] > 0}

\* the latest heading, before line i, one level above the heading of line i
LatestAbove(lines, i) ==
    LET prior == {j \in 1 .. (i - 1) : lines[j] > 0 /\ lines[j] = lines[i] - 1}
    IN IF prior = {} THEN Root ELSE Max(prior)

\* C12 (outline parent rule): once the outline is rebuilt from a text, it has
\* one node for each heading line, in line order, and the node of a heading
\* of depth d at line i is a child of the node of the latest heading of depth
\* exactly d-1 before line i, or of the root when there is none, whatever
\* headings of other depths lie between.
C12_ParentRule ==
    fired > 0 =>
        /\ Len(outline) = Cardinality(Headings(tex_text))
        /\ \A k \in DOMAIN outline :
             /\ outline[k].iid \in Headings(tex_text)
             /\ outline[k].depth = tex_text[outline[k].iid]
             /\ outline[k].parent = LatestAbove(tex_text, outline[k].iid)
             /\ \A j \in DOMAIN outline : j < k => outline[j].iid < outline[k].iid

\* the outline of a \chapter followed by a \subsection: the \subsection is
\* under the root
C12_Witness ==
    /\ fired > 0
    /\ tex_text = <<1, 3>>
    /\ Len(outline) = 2
    /\ outline[2].parent = Root

\* ------------------------------------------------------------------ C13
\* C13 (outline idempotence): after _update_outline the outline is the tree of
\* the current text alone, whatever tree was there before and however many
\* times it has run on that text.
C13_Idempotent ==
    fired > 0 => outline = Outline(tex_text)

\* the text was retyped under an outline already built, and _update_outline
\* has then run twice in a row
C13_Witness ==
    /\ fired = 2
    /\ modified
    /\ Len(outline) = MaxLines
    /\ outline = Outline(tex_text)

\* ------------------------------------------------------------------ C14
DebounceDue == \E t \in afters : t.cb = "live_update" /\ t.left <= 0

\* C14 (no failure is fatal): whatever failure a compile request ends in, its
\* handler only waits for its message box to be closed and then returns; an
\* idle loop takes the next edit notification; and once the quiet interval
\* after an edit has passed, _live_update runs, failure message open or not:
\* one outline rebuild and one compile attempt for that edit.
C14_NoFailureFatal ==
    /\ [](fired <= 1)
    /\ []((stack # <<>> /\ Top.pc = "dialog") => ENABLED Dismiss)
    /\ [](InputFree => ENABLED OnTextModified)
    /\ []((DebounceDue /\ ~Executing) => ENABLED LiveUpdate)
    /\ [][LiveUpdate => /\ fired' = 1
                        /\ outline' = Outline(tex_text)
                        /\ Len(stack') = Len(stack) + 1]_vars
    /\ DebounceDue ~> ~DebounceDue

\* after a pdflatex run that ended in a failure (a log is there, nothing was
\* ever rendered) and whose handler has returned, the debounce timer has fired
\* and its compile request is at the pdflatex invocation
C14_Witness ==
    /\ Len(stack) = 1
    /\ Top.h = "live_update"
    /\ Top.pc = "invoke"
    /\ Exists(temp_log)
    /\ preview = NoFile
    /\ fired = 1

\* ------------------------------------------------------------------ C15
\* C15 (persist step): a compile request made with a document open either
\* writes the buffer to main.tex and clears the modified flag, changed buffer
\* or not, or fails to: then it ends in the IOError message with the flag as
\* it was, build/ untouched, pdflatex not started and nothing rendered.
C15_PersistStep ==
    [][(HasDocument(current_tex_path) /\ (CompileNowClick \/ LiveUpdate)) =>
         \/ /\ src_file' = File(tex_text)
            /\ modified' = FALSE
         \/ /\ src_file' \in {src_file, File(<<>>)}
            /\ modified' = modified
            /\ Top'.pc = "dialog"
            /\ Top'.outcome = "IOError"
            /\ UNCHANGED << build, preview >>
            /\ last' = Quiet]_vars

\* a compile request has failed to write a changed buffer: main.tex is left
\* empty, the flag is still set, the request has ended in the IOError message
C15_Witness ==
    /\ stack # <<>>
    /\ Top.outcome = "IOError"
    /\ Top.h = "compile_now"
    /\ modified
    /\ src_file = File(<<>>)
    /\ Exists(temp_tex)

\* ------------------------------------------------------------------ C16
\* C16 (staging consistency): while pdflatex runs, build/temp.tex equals
\* main.tex, which holds the buffer as the compile request found it; it is
\* never a temp.tex staged by an earlier request.
C16_StagingConsistent ==
    Executing =>
        /\ Exists(temp_tex)
        /\ temp_tex = src_file
        /\ src_file = File(tex_text)

\* pdflatex has run before, and now runs for a debounce-triggered request on
\* the text typed since
C16_Witness ==
    /\ Executing
    /\ Top.h = "live_update"
    /\ Exists(temp_log)
    /\ tex_text \in EditTexts
    /\ temp_tex = File(tex_text)

\* ------------------------------------------------------------------ C17
\* C17 (outline before compile): _live_update leaves the outline rebuilt from
\* the current buffer; while its compile request is at the pdflatex invocation
\* or shows its outcome, the outline is already that of the buffer, also when
\* the request has failed or no document is open.
C17_OutlineFirst ==
    /\ [][LiveUpdate => outline' = Outline(tex_text)]_vars
    /\ []((stack # <<>> /\ Top.h = "live_update") => outline = Outline(tex_text))

\* with no document open, _live_update has rebuilt the outline of the typed
\* text and its compile request shows the InputError message
C17_Witness ==
    /\ stack # <<>>
    /\ Top.h = "live_update"
    /\ Top.outcome = "InputError"
    /\ outline # <<>>
    /\ outline = Outline(tex_text)

\* ------------------------------------------------------------------ C18
DebounceTimers == {t \in afters : t.cb = "live_update"}

\* C18 (backup frame): a firing of the backup timer, its write succeeding or
\* not, leaves the buffer, the modified flag, the path, main.tex, build/, the
\* outline, the preview and the pending debounce timer as they are; it adds at
\* most one file to backups/, keeps the files already there, and leaves the
\* backup timer armed.
C18_BackupFrame ==
    [][DoBackup =>
         /\ UNCHANGED << tex_text, modified, current_tex_path, src_file, build,
                         outline, preview, compile_after_id, stack >>
         /\ DebounceTimers' = DebounceTimers
         /\ Len(backups') \in {Len(backups), Len(backups) + 1}
         /\ SubSeq(backups', 1, Len(backups)) = backups
         /\ BackupTimers' # {}]_vars

\* a backup has just been written (its file is of the current second) while
\* the debounce timer armed by an earlier edit was pending, and that timer is
\* still pending
C18_Witness ==
    /\ backups # <<>>
    /\ backups[Len(backups)].age = 0
    /\ since_edit > 0
    /\ fired = 0
    /\ DebounceTimers # {}
    /\ modified

\* ------------------------------------------------------------------ C19
\* the step ends a compile request in Success: pdflatex has returned and the
\* handler has gone on to the end, the page drawn on the canvas
Succeeds == Executing /\ Len(stack') < Len(stack)

\* C19 (fresh artifact): when a compile request ends in Success, the temp.pdf
\* it has rendered was written by the pdflatex run of that request, not left
\* in build/ by an earlier one.
C19_FreshArtifact ==
    [][Succeeds => (last'.renders = 1 /\ last'.fresh)]_vars

\* ------------------------------------------------------------------ C20
\* C20 (timer bookkeeping): at most one debounce timer and at most one backup
\* timer are pending; _compile_after_id is set exactly when a debounce timer
\* is pending, and then names it; _backup_after_id names the backup timer.
C20_TimerBookkeeping ==
    /\ Cardinality(DebounceTimers) <= 1
    /\ Cardinality(BackupTimers) <= 1
    /\ (compile_after_id # None) <=> (DebounceTimers # {})
    /\ \A t \in DebounceTimers : t.id = compile_after_id
    /\ \A t \in BackupTimers : t.id = backup_after_id
    /\ compile_after_id # backup_after_id

\* the debounce timer has fired (its id is cleared) and an edit made since
\* has armed a new one, next to the backup timer
C20_Witness ==
    /\ compile_after_id # None
    /\ Cardinality(afters) = 2
    /\ since_edit = 0
    /\ Len(outline) = 1
    /\ outline[1].depth = 2
    /\ current_tex_path = NoPath
====
